---- MODULE Spec2Model ----
(***************************************************************************)
(* Model of monotrail's requirements.txt parser (src/requirements_txt.rs)  *)
(* and of the locked wheel installation entry point                        *)
(* (crates/install-wheel-rs/src/lib.rs).                                   *)
(*                                                                         *)
(* File contents are sequences of bytes; a byte is a one-character string, *)
(* except the two bytes of U+00F6 (o-umlaut), written "C3" and "B6".       *)
(* Offsets are 0-based byte offsets as in the Rust code: the byte at       *)
(* offset i of c is c[i+1].                                                *)
(***************************************************************************)
EXTENDS Integers, Sequences, FiniteSets, TLC

VARIABLES
    files,      \* the file system: path -> content (bytes); absent = unreadable
    tree,       \* the statements each generated file was rendered from
    stack,      \* call stack of RequirementsTxt::parse, innermost call last
    status,     \* "running", "ok" or "error" (of the outermost parse call)
    result,     \* the RequirementsTxt returned by the outermost call
    err,        \* the error chain, outermost first (anyhow's chain())
    handed,     \* the last substring given to Requirement::from_str
    stalled,    \* the last parse_entry call returned Ok without moving the cursor
    pc,         \* install_wheel_in_venv: where each call stands
    venv,       \* install_wheel_in_venv: the venv each call installs into
    lock,       \* the calls that hold each environment's lock
    progress,   \* installer steps the current call has performed
    outcome,    \* what the last call of each process returned
    history     \* per process: lock taken / installer run during the current call

parserVars == <<files, tree, stack, status, result, err, handed, stalled>>
lockVars == <<pc, venv, lock, progress, outcome, history>>
vars == <<files, tree, stack, status, result, err, handed, stalled,
          pc, venv, lock, progress, outcome, history>>

----------------------------------------------------------------------------
(* Bounds of the model *)

\* tokens of the top file under Spec
MaxTokens == 4
\* statements of the top file under TreeSpec
MaxStmts == 2
\* hashes of a requirement under TreeSpec
MaxHashes == 2
\* concurrent callers of install_wheel_in_venv under LockSpec
NumProcs == 2
\* steps the installer takes on the environment under LockSpec
InstallSteps == 2

----------------------------------------------------------------------------
(* Bytes and the unscanny Scanner *)

Newline == "\n"
Backslash == "\\"

\* char::is_whitespace, on the bytes the model uses
Ws == {" ", Newline}

\* char::is_ascii_alphanumeric, on the bytes the model uses
Alnum == {"a", "b", "c", "d", "e", "h", "m", "r", "s", "x", "y"}

\* bytes that continue a multi-byte character
Continuation == {"B6"}

\* char::len_utf8 of the character that starts at offset i
CharLen(c, i) == IF c[i + 1] = "C3" THEN 2 ELSE 1

\* content[from..to]
Slice(c, from, to) == SubSeq(c, from + 1, to)

\* Scanner::at / the test of Scanner::eat_if, for a string pattern
At(c, i, pat) == i + Len(pat) <= Len(c) /\ Slice(c, i, i + Len(pat)) = pat

\* Scanner::done
Done(c, i) == i >= Len(c)

\* Scanner::eat_whitespace: the cursor after it
RECURSIVE EatWhitespace(_, _)
EatWhitespace(c, i) ==
    IF i < Len(c) /\ c[i + 1] \in Ws THEN EatWhitespace(c, i + 1) ELSE i

\* Scanner::eat_until with a set of characters: the cursor after it
RECURSIVE EatUntil(_, _, _)
EatUntil(c, i, until) ==
    IF i < Len(c) /\ c[i + 1] \notin until
    THEN EatUntil(c, i + CharLen(c, i), until)
    ELSE i

\* Scanner::eat_while with a string pattern: the cursor after it
RECURSIVE EatWhile(_, _, _)
EatWhile(c, i, pat) ==
    IF At(c, i, pat) THEN EatWhile(c, i + Len(pat), pat) ELSE i

\* str::trim_end of content[from..to]: the offset where the trimmed slice ends
RECURSIVE TrimEnd(_, _, _)
TrimEnd(c, from, to) ==
    IF to > from /\ c[to] \in Ws THEN TrimEnd(c, from, to - 1) ELSE to

\* str::trim_start of content[from..to]: the offset where the trimmed slice starts
RECURSIVE TrimStart(_, _, _)
TrimStart(c, from, to) ==
    IF from < to /\ c[from + 1] \in Ws THEN TrimStart(c, from + 1, to) ELSE from

----------------------------------------------------------------------------
(* Paths *)

\* a path is the sequence of its components
RECURSIVE SplitPath(_, _)
SplitPath(text, acc) ==
    IF text = <<>> THEN (IF acc = <<>> THEN <<>> ELSE <<acc>>)
    ELSE IF Head(text) = "/"
         THEN (IF acc = <<>> THEN <<>> ELSE <<acc>>) \o SplitPath(Tail(text), <<>>)
         ELSE SplitPath(Tail(text), Append(acc, Head(text)))

\* Path::parent
Parent(path) == SubSeq(path, 1, Len(path) - 1)

\* Path::join with a relative path given as text
Join(dir, text) == dir \o SplitPath(text, <<>>)

----------------------------------------------------------------------------
(* RequirementsTxtError *)

NoOffset == -1

\* RequirementsTxtError::IO: the file that could not be read
IOError(file) ==
    [kind |-> "IO", file |-> file, location |-> NoOffset,
     start |-> NoOffset, end |-> NoOffset]

\* RequirementsTxtError::Parser
ParserError(file, location) ==
    [kind |-> "Parser", file |-> file, location |-> location,
     start |-> NoOffset, end |-> NoOffset]

\* a Pep508 error that reports the cursor after the terminator as `end`
Pep508ErrorPastEnd(file, start, end) ==
    [kind |-> "Pep508", file |-> file, location |-> NoOffset,
     start |-> start, end |-> end + 1]

\* RequirementsTxtError::Pep508
Pep508Error(file, start, end) ==
    [kind |-> "Pep508", file |-> file, location |-> NoOffset,
     start |-> start, end |-> end]

\* a Subfile error that reports the offset where the `-r`/`-c` keyword starts
SubfileErrorAtKeyword(file, location) ==
    [kind |-> "Subfile", file |-> file, location |-> location - 2,
     start |-> NoOffset, end |-> NoOffset]

\* RequirementsTxtError::Subfile; its source is the rest of the chain
SubfileError(file, location) ==
    [kind |-> "Subfile", file |-> file, location |-> location,
     start |-> NoOffset, end |-> NoOffset]

NoError == [kind |-> "None", file |-> <<>>, location |-> NoOffset,
            start |-> NoOffset, end |-> NoOffset]

----------------------------------------------------------------------------
(* The dependency-specifier parser (pep508_rs), an external collaborator.   *)
(* A Requirement is represented by the specifier text without surrounding   *)
(* whitespace; the parser accepts a text that starts and ends with an       *)
(* alphanumeric and otherwise holds only name and version characters.       *)

SpecifierBytes == Alnum \cup {"-", "="}

Requirement_from_str(body) ==
    LET from == TrimStart(body, 0, Len(body))
        to == TrimEnd(body, from, Len(body))
        text == Slice(body, from, to)
    IN  [ok |-> /\ text # <<>>
                /\ text[1] \in Alnum
                /\ text[Len(text)] \in Alnum
                /\ \A k \in 1..Len(text) : text[k] \in SpecifierBytes,
         requirement |-> text]

----------------------------------------------------------------------------
(* The statement parsers *)

\* eat_wrappable_whitespace: the cursor after it
RECURSIVE EatEscapedNewlines(_, _)
EatEscapedNewlines(c, i) ==
    IF At(c, i, <<Backslash, Newline>>)
    THEN EatEscapedNewlines(c, EatWhitespace(c, i + 2))
    ELSE i

eat_wrappable_whitespace(c, i) == EatEscapedNewlines(c, EatWhitespace(c, i))

\* parse_value: the part after the key in `-<key>=<value>` or `-<key> <value>`
parse_value(c, i, until, file) ==
    IF At(c, i, <<"=">>)
    THEN LET j == EatUntil(c, i + 1, until)
         IN  [ok |-> TRUE, value |-> Slice(c, i + 1, TrimEnd(c, i + 1, j)),
              cursor |-> j, error |-> NoError]
    ELSE IF i < Len(c) /\ c[i + 1] \in Ws
    THEN LET k == EatWhitespace(c, i + 1)
             j == EatUntil(c, k, until)
         IN  [ok |-> TRUE, value |-> Slice(c, k, TrimEnd(c, k, j)),
              cursor |-> j, error |-> NoError]
    ELSE [ok |-> FALSE, value |-> <<>>, cursor |-> i,
          error |-> ParserError(file, i)]

HashKey == <<"-", "-", "h", "a", "s", "h">>

\* the loop of parse_hashes, entered after the first hash
RECURSIVE parse_hashes_loop(_, _, _, _)
parse_hashes_loop(c, i, file, hashes) ==
    LET Value(v) ==
            IF v.ok
            THEN parse_hashes_loop(c, v.cursor, file, Append(hashes, v.value))
            ELSE [ok |-> FALSE, hashes |-> <<>>, cursor |-> v.cursor,
                  error |-> v.error]
        Key(j, k) ==
            IF k = j
            THEN [ok |-> TRUE, hashes |-> hashes, cursor |-> j, error |-> NoError]
            ELSE Value(parse_value(c, k, Ws, file))
        Whitespace(j) == Key(j, EatWhile(c, j, HashKey))
    IN  Whitespace(eat_wrappable_whitespace(c, i))

\* a parse_hashes that stops after the first hash
parse_hashes_first_only(c, i, file) ==
    LET Value(v) ==
            IF v.ok
            THEN [ok |-> TRUE, hashes |-> <<v.value>>, cursor |-> v.cursor,
                  error |-> NoError]
            ELSE [ok |-> FALSE, hashes |-> <<>>, cursor |-> v.cursor,
                  error |-> v.error]
        Expected(j) ==
            [ok |-> FALSE, hashes |-> <<>>, cursor |-> j,
             error |-> ParserError(file, j)]
        Key(k) ==
            IF k = i
            THEN Expected(EatUntil(c, i, Ws))
            ELSE Value(parse_value(c, k, Ws, file))
    IN  Key(EatWhile(c, i, HashKey))

\* parse_hashes: `--hash=... --hash ...` after a requirement
parse_hashes(c, i, file) ==
    LET Value(v) ==
            IF v.ok
            THEN parse_hashes_loop(c, v.cursor, file, <<v.value>>)
            ELSE [ok |-> FALSE, hashes |-> <<>>, cursor |-> v.cursor,
                  error |-> v.error]
        \* the message eats the offending token before the cursor is read
        Expected(j) ==
            [ok |-> FALSE, hashes |-> <<>>, cursor |-> j,
             error |-> ParserError(file, j)]
        Key(k) ==
            IF k = i
            THEN Expected(EatUntil(c, i, Ws))
            ELSE Value(parse_value(c, k, Ws, file))
    IN  Key(EatWhile(c, i, HashKey))

\* the loop of parse_requirement_and_hashes that finds the end of the body
RECURSIVE requirement_body(_, _)
requirement_body(c, i) ==
    LET Whitespace(j) ==
            IF j > i /\ At(c, j, <<"-", "-">>)
            THEN [end |-> i, has_hashes |-> TRUE, cursor |-> j]
            ELSE IF Done(c, j)
            THEN [end |-> i, has_hashes |-> FALSE, cursor |-> j]
            ELSE requirement_body(c, j + CharLen(c, j))
    IN  IF At(c, i, <<Newline>>)
        THEN [end |-> i, has_hashes |-> FALSE, cursor |-> i + 1]
        ELSE Whitespace(eat_wrappable_whitespace(c, i))

\* parse_requirement_and_hashes
parse_requirement_and_hashes(c, start, file) ==
    LET Hashes(b, r, h) ==
            [ok |-> h.ok, requirement |-> r.requirement, hashes |-> h.hashes,
             cursor |-> h.cursor, start |-> start, end |-> b.end,
             error |-> h.error]
        Parsed(b, r) ==
            IF ~r.ok
            THEN [ok |-> FALSE, requirement |-> <<>>, hashes |-> <<>>,
                  cursor |-> b.cursor, start |-> start, end |-> b.end,
                  error |-> Pep508Error(file, start, b.end)]
            ELSE IF b.has_hashes
            THEN Hashes(b, r, parse_hashes(c, b.cursor, file))
            ELSE Hashes(b, r, [ok |-> TRUE, hashes |-> <<>>,
                               cursor |-> b.cursor, error |-> NoError])
        Body(b) == Parsed(b, Requirement_from_str(Slice(c, start, b.end)))
    IN  Body(requirement_body(c, start))

\* RequirementEntry
RequirementEntry(requirement, hashes, editable) ==
    [requirement |-> requirement, hashes |-> hashes, editable |-> editable]

NoEntry == RequirementEntry(<<>>, <<>>, FALSE)

\* what one call of parse_entry does at cursor i of content c:
\*   t = "skip"     nothing is added (whitespace, a comment, or no statement)
\*   t = "include"  `-r`/`-c` (kw) of the file named `value`, location after kw
\*   t = "entry"    a requirement is pushed (kw = "e" for `-e`)
\*   t = "error"    the call returns Err(error)
EntryOutcome(t, cursor, kw, location, value, entry, start, end, error) ==
    [t |-> t, cursor |-> cursor, kw |-> kw, location |-> location,
     value |-> value, entry |-> entry, start |-> start, end |-> end,
     error |-> error]

parse_include(c, i, kw, file) ==
    LET Value(v) ==
            IF v.ok
            THEN EntryOutcome("include", v.cursor, kw, i, v.value, NoEntry,
                              NoOffset, NoOffset, NoError)
            ELSE EntryOutcome("error", v.cursor, kw, i, <<>>, NoEntry,
                              NoOffset, NoOffset, v.error)
    IN  Value(parse_value(c, i, {Newline, "#"}, file))

parse_requirement(c, i, editable, file) ==
    LET kw == IF editable THEN "e" ELSE "none"
        Parsed(p) ==
            IF p.ok
            THEN EntryOutcome("entry", p.cursor, kw, i, <<>>,
                              RequirementEntry(p.requirement, p.hashes, editable),
                              p.start, p.end, NoError)
            ELSE EntryOutcome("error", p.cursor, kw, i, <<>>, NoEntry,
                              p.start, p.end, p.error)
    IN  Parsed(parse_requirement_and_hashes(c, i, file))

parse_entry(c, i0, file) ==
    LET Statement(i) ==
            IF At(c, i, <<"#">>)
            THEN EntryOutcome("skip", EatUntil(c, i + 1, {Newline}), "none", i,
                              <<>>, NoEntry, NoOffset, NoOffset, NoError)
            ELSE IF At(c, i, <<"-", "r">>) THEN parse_include(c, i + 2, "r", file)
            ELSE IF At(c, i, <<"-", "c">>) THEN parse_include(c, i + 2, "c", file)
            ELSE IF At(c, i, <<"-", "e">>)
            THEN parse_requirement(c, i + 2, TRUE, file)
            ELSE IF i < Len(c) /\ c[i + 1] \in Alnum
            THEN parse_requirement(c, i, FALSE, file)
            ELSE EntryOutcome("skip", i, "none", i, <<>>, NoEntry,
                              NoOffset, NoOffset, NoError)
    IN  Statement(EatWhitespace(c, i0))

----------------------------------------------------------------------------
(* RequirementsTxt::parse as a state machine: one frame per active call *)

\* the locals of one call of RequirementsTxt::parse; `pending` and `location`
\* are set while the call waits for the parse of an included file
Frame(file) ==
    [file |-> file, cursor |-> 0, requirements |-> <<>>, constraints |-> <<>>,
     pending |-> "none", location |-> NoOffset]

\* RequirementsTxt
RequirementsTxt(requirements, constraints) ==
    [requirements |-> requirements, constraints |-> constraints]

\* `at` is the cursor at the call of parse_requirement_and_hashes, start and
\* end are the bounds of the slice given to Requirement::from_str
NoHanded ==
    [file |-> <<>>, at |-> NoOffset, start |-> NoOffset, end |-> NoOffset,
     editable |-> FALSE, ok |-> FALSE]

Top(s) == s[Len(s)]
Pop(s) == SubSeq(s, 1, Len(s) - 1)
ReplaceTop(s, f) == [s EXCEPT ![Len(s)] = f]

\* an include resolved against the working directory
SubFileFromWorkingDir(file, value) == Join(<<>>, value)

\* the file an include names: the path is joined to the parent of the
\* including file
SubFile(file, value) == Join(Parent(file), value)

\* `-r`: each list of the sub file is added to the same list
MergeRequirements(self, sub) ==
    [self EXCEPT !.requirements = @ \o sub.requirements,
                 !.constraints = @ \o sub.constraints,
                 !.pending = "none"]

\* a `-c` that keeps the requirements of the sub file as requirements
MergeConstraintsAsRequirements(self, sub) ==
    [self EXCEPT !.requirements = @ \o sub.requirements,
                 !.constraints = @ \o sub.constraints,
                 !.pending = "none"]

\* `-c`: both lists of the sub file are added to the constraints
MergeConstraints(self, sub) ==
    [self EXCEPT !.constraints =
                     @ \o [k \in 1..Len(sub.requirements) |->
                              sub.requirements[k].requirement]
                       \o sub.constraints,
                 !.pending = "none"]

\* one iteration of the loop of RequirementsTxt::parse in the innermost call:
\* a call of parse_entry, up to the call of Self::parse for an include
ParseEntry ==
    /\ status = "running"
    /\ stack # <<>>
    /\ Top(stack).pending = "none"
    /\ ~Done(files[Top(stack).file], Top(stack).cursor)
    /\ \E f \in {Top(stack)} :
       \E o \in {parse_entry(files[f.file], f.cursor, f.file)} :
       \E sub \in {SubFile(f.file, o.value)} :
       \E waiting \in {[f EXCEPT !.cursor = o.cursor, !.pending = o.kw,
                                 !.location = o.location]} :
           /\ handed' = IF o.start = NoOffset THEN handed
                        ELSE [file |-> f.file, at |-> o.location,
                              start |-> o.start, end |-> o.end,
                              editable |-> o.kw = "e",
                              ok |-> o.error.kind # "Pep508"]
           /\ stalled' = (o.t = "skip" /\ o.cursor = f.cursor)
           /\ IF o.t = "error"
              THEN /\ stack' = Pop(stack)
                   /\ status' = "error"
                   /\ err' = <<o.error>>
              ELSE IF o.t = "include" /\ sub \notin DOMAIN files
              THEN \* fs::read_to_string fails in the called parse
                   /\ stack' = ReplaceTop(stack, waiting)
                   /\ status' = "error"
                   /\ err' = <<IOError(sub)>>
              ELSE IF o.t = "include"
              THEN /\ stack' = Append(ReplaceTop(stack, waiting), Frame(sub))
                   /\ UNCHANGED <<status, err>>
              ELSE IF o.t = "entry"
              THEN /\ stack' = ReplaceTop(stack,
                                  [f EXCEPT !.cursor = o.cursor,
                                            !.requirements = Append(@, o.entry)])
                   /\ UNCHANGED <<status, err>>
              ELSE /\ stack' = ReplaceTop(stack, [f EXCEPT !.cursor = o.cursor])
                   /\ UNCHANGED <<status, err>>
    /\ UNCHANGED <<files, tree, result>>
    /\ UNCHANGED lockVars

\* the loop of the innermost call ends and the call returns Ok: to the caller
\* of the outermost parse, or to the parse_entry that waits for the include
ParseReturn ==
    /\ status = "running"
    /\ stack # <<>>
    /\ Top(stack).pending = "none"
    /\ Done(files[Top(stack).file], Top(stack).cursor)
    /\ LET sub == Top(stack)
       IN  IF Len(stack) = 1
           THEN /\ status' = "ok"
                /\ result' = RequirementsTxt(sub.requirements, sub.constraints)
                /\ stack' = <<>>
           ELSE LET self == stack[Len(stack) - 1]
                IN  /\ stack' = ReplaceTop(Pop(stack),
                                   IF self.pending = "r"
                                   THEN MergeRequirements(self, sub)
                                   ELSE MergeConstraints(self, sub))
                    /\ UNCHANGED <<status, result>>
    /\ UNCHANGED <<files, tree, err, handed, stalled>>
    /\ UNCHANGED lockVars

\* the parse of an included file has failed: the waiting parse_entry wraps the
\* error in Subfile and its own call returns Err
ParseReturnErr ==
    /\ status = "error"
    /\ stack # <<>>
    /\ err' = <<SubfileError(Top(stack).file, Top(stack).location)>> \o err
    /\ stack' = Pop(stack)
    /\ UNCHANGED <<files, tree, status, result, handed, stalled>>
    /\ UNCHANGED lockVars

Next == ParseEntry \/ ParseReturn \/ ParseReturnErr

NoResult == RequirementsTxt(<<>>, <<>>)

\* the state in which RequirementsTxt::parse(top) has read the top file
ParserStart(fs, top) ==
    /\ files = fs
    /\ stack = <<Frame(top)>>
    /\ status = "running"
    /\ result = NoResult
    /\ err = <<>>
    /\ handed = NoHanded
    /\ stalled = FALSE

----------------------------------------------------------------------------
(* install_wheel_in_venv: concurrent calls, each by its own process *)

\* the processes that call install_wheel_in_venv
Procs == 1..NumProcs

\* the environment directories (canonical paths)
Envs == {"venv1", "venv2"}

NewCall == [locked |-> FALSE, installed |-> FALSE]

\* no call of install_wheel_in_venv is active
LockIdle ==
    /\ pc = [p \in Procs |-> "idle"]
    /\ venv = [p \in Procs |-> "venv1"]
    /\ lock = [e \in Envs |-> {}]
    /\ progress = [p \in Procs |-> 0]
    /\ outcome = [p \in Procs |-> "none"]
    /\ history = [p \in Procs |-> NewCall]

\* install_wheel_in_venv is called with some venv
Call(p) ==
    /\ pc[p] = "idle"
    /\ \E e \in Envs : venv' = [venv EXCEPT ![p] = e]
    /\ pc' = [pc EXCEPT ![p] = "canonicalize"]
    /\ history' = [history EXCEPT ![p] = NewCall]
    /\ outcome' = [outcome EXCEPT ![p] = "none"]
    /\ UNCHANGED <<lock, progress>>
    /\ UNCHANGED parserVars

\* venv.canonicalize()?: the path resolves, or the call returns the IO error
Canonicalize(p) ==
    /\ pc[p] = "canonicalize"
    /\ \/ /\ pc' = [pc EXCEPT ![p] = "acquire"]
          /\ UNCHANGED outcome
       \/ /\ pc' = [pc EXCEPT ![p] = "idle"]
          /\ outcome' = [outcome EXCEPT ![p] = "Err(IO)"]
    /\ UNCHANGED <<venv, lock, progress, history>>
    /\ UNCHANGED parserVars

\* InstallLocation::acquire_lock can hand out the lock of env
CanLock(env) == lock[env] = {}

\* the holders of the locks with a LockedDir of env held by p
Locked(env, p) == [lock EXCEPT ![env] = @ \cup {p}]

\* the holders of the locks after the drop of p's LockedDir of env
Dropped(env, p) == [lock EXCEPT ![env] = @ \ {p}]

\* `let _ = location.acquire_lock()?`: the LockedDir is dropped at once and
\* the installer runs without it
AcquireLockDroppedAtOnce(p) ==
    /\ pc[p] = "acquire"
    /\ \/ /\ CanLock(venv[p])
          /\ pc' = [pc EXCEPT ![p] = "install"]
          /\ history' = [history EXCEPT ![p].locked = TRUE]
          /\ UNCHANGED <<lock, outcome>>
       \/ /\ pc' = [pc EXCEPT ![p] = "idle"]
          /\ outcome' = [outcome EXCEPT ![p] = "Err(lock)"]
          /\ UNCHANGED <<lock, history>>
    /\ UNCHANGED <<venv, progress>>
    /\ UNCHANGED parserVars

\* location.acquire_lock()?: the LockedDir is bound when the lock is free;
\* the call returns the error when acquire_lock fails (a broken environment,
\* or a lock that is held, under a fail-fast policy); otherwise it waits
AcquireLock(p) ==
    /\ pc[p] = "acquire"
    /\ \/ /\ CanLock(venv[p])
          /\ lock' = Locked(venv[p], p)
          /\ pc' = [pc EXCEPT ![p] = "install"]
          /\ history' = [history EXCEPT ![p].locked = TRUE]
          /\ UNCHANGED outcome
       \/ /\ pc' = [pc EXCEPT ![p] = "idle"]
          /\ outcome' = [outcome EXCEPT ![p] = "Err(lock)"]
          /\ UNCHANGED <<lock, history>>
    /\ UNCHANGED <<venv, progress>>
    /\ UNCHANGED parserVars

\* install_wheel(&locked_dir, ...): one step of the installer on the
\* environment, its failure, or its end with the tag
InstallWheel(p) ==
    /\ pc[p] = "install"
    /\ history' = [history EXCEPT ![p].installed = TRUE]
    /\ \/ /\ progress[p] < InstallSteps
          /\ progress' = [progress EXCEPT ![p] = @ + 1]
          /\ UNCHANGED <<pc, outcome>>
       \/ /\ progress[p] < InstallSteps
          /\ pc' = [pc EXCEPT ![p] = "return"]
          /\ outcome' = [outcome EXCEPT ![p] = "Err(install)"]
          /\ UNCHANGED progress
       \/ /\ progress[p] = InstallSteps
          /\ pc' = [pc EXCEPT ![p] = "return"]
          /\ outcome' = [outcome EXCEPT ![p] = "Ok(tag)"]
          /\ UNCHANGED progress
    /\ UNCHANGED <<venv, lock>>
    /\ UNCHANGED parserVars

\* a return that drops the LockedDir only after a successful install
ReturnDropOnSuccess(p) ==
    /\ pc[p] = "return"
    /\ lock' = IF outcome[p] = "Ok(tag)" THEN Dropped(venv[p], p) ELSE lock
    /\ pc' = [pc EXCEPT ![p] = "idle"]
    /\ progress' = [progress EXCEPT ![p] = 0]
    /\ UNCHANGED <<venv, outcome, history>>
    /\ UNCHANGED parserVars

\* the call returns what install_wheel returned; locked_dir goes out of scope
Return(p) ==
    /\ pc[p] = "return"
    /\ lock' = Dropped(venv[p], p)
    /\ pc' = [pc EXCEPT ![p] = "idle"]
    /\ progress' = [progress EXCEPT ![p] = 0]
    /\ UNCHANGED <<venv, outcome, history>>
    /\ UNCHANGED parserVars

LockNext ==
    \E p \in Procs :
        \/ Call(p)
        \/ Canonicalize(p)
        \/ AcquireLock(p)
        \/ InstallWheel(p)
        \/ Return(p)

\* no parse is active
ParserIdle ==
    /\ files = <<>>
    /\ tree = <<>>
    /\ stack = <<>>
    /\ status = "idle"
    /\ result = NoResult
    /\ err = <<>>
    /\ handed = NoHanded
    /\ stalled = FALSE

LockInit == LockIdle /\ ParserIdle

LockSpec == LockInit /\ [][LockNext]_vars

----------------------------------------------------------------------------
(* Specification Spec: the top file holds any text of up to MaxTokens      *)
(* tokens; beside it lies one readable file, named a.                      *)

TopFile == << <<"t">> >>

Tokens ==
    { <<"a">>, <<" ">>, <<Newline>>, <<Backslash>>, <<"=">>, <<"#">>,
      <<"C3", "B6">>, <<"-", "e">>, <<"-", "r">>, <<"-", "c">>, <<"-", "-">>,
      HashKey }

RECURSIVE Concat(_)
Concat(seqs) == IF seqs = <<>> THEN <<>> ELSE Head(seqs) \o Concat(Tail(seqs))

ScanFiles(text) == (TopFile :> text) @@ (<< <<"a">> >> :> <<"b", Newline>>)

Init ==
    /\ \E n \in 0..MaxTokens : \E t \in [1..n -> Tokens] :
           ParserStart(ScanFiles(Concat(t)), TopFile)
    /\ tree = <<>>
    /\ LockIdle

Spec == Init /\ [][Next]_vars

----------------------------------------------------------------------------
(* Properties of the scan of one file, checked under Spec *)

\* the text the last requirement body was taken from
HandedText == files[handed.file]

\* spaces and backslash-newline pairs from offset i on: the offset after them
RECURSIVE SkipBlanks(_, _)
SkipBlanks(c, i) ==
    IF i < Len(c) /\ c[i + 1] = " " THEN SkipBlanks(c, i + 1)
    ELSE IF At(c, i, <<Backslash, Newline>>) THEN SkipBlanks(c, i + 2)
    ELSE i

\* offset p ends a requirement body: a newline not directly after a
\* backslash, the end of the file, or whitespace directly followed by `--`
EndsBody(c, p) ==
    \/ p >= Len(c)
    \/ c[p + 1] = Newline /\ (p = 0 \/ c[p] # Backslash)
    \/ SkipBlanks(c, p) > p /\ At(c, SkipBlanks(c, p), <<"-", "-">>)

RECURSIVE FirstEnd(_, _)
FirstEnd(c, p) == IF EndsBody(c, p) THEN p ELSE FirstEnd(c, p + 1)

\* C3: the slice given to the specifier parser starts at the first character
\* of the requirement and ends at the first newline that is not escaped by a
\* backslash, at the end of the file, or at the whitespace before `--`,
\* whichever comes first (blanks directly before that end may be left out);
\* in particular an unescaped newline never lies inside the slice.
C3_BodyEndsAtFirstTerminator ==
    handed.start # NoOffset =>
        /\ handed.editable \/ HandedText[handed.start + 1] \in Alnum
        /\ handed.end <= FirstEnd(HandedText, handed.start)
        /\ SkipBlanks(HandedText, handed.end) >= FirstEnd(HandedText, handed.start)

\* C8: for `-e` the slice given to the specifier parser is the specifier
\* itself: `-e` is followed by `=` or by whitespace, and the slice starts
\* after that `=` or whitespace (otherwise no specifier is parsed at all).
C8_EditableValueForms ==
    handed.start # NoOffset /\ handed.editable =>
        /\ handed.at < Len(HandedText)
        /\ HandedText[handed.at + 1] \in Ws \cup {"="}
        /\ handed.start = IF HandedText[handed.at + 1] = "="
                          THEN handed.at + 1
                          ELSE SkipBlanks(HandedText, handed.at)

\* C10: every call of parse_entry on a scanner that is not done moves the
\* cursor forward or returns an error.
C10_EntryAdvancesOrFails == ~stalled

\* offset i of c does not split a character
CharBoundary(c, i) == i = Len(c) \/ c[i + 1] \notin Continuation

\* whitespace and backslash-newline pairs from offset i on: the offset after
RECURSIVE SkipWrappable(_, _)
SkipWrappable(c, i) ==
    IF i < Len(c) /\ c[i + 1] \in Ws THEN SkipWrappable(c, i + 1)
    ELSE IF At(c, i, <<Backslash, Newline>>) THEN SkipWrappable(c, i + 2)
    ELSE i

\* the innermost error of the chain
Cause == err[Len(err)]

\* what C7 says of a Pep508 error but for the place of `end`
Pep508Brackets ==
    /\ Cause.file = handed.file
    /\ Cause.start = handed.start
    /\ Cause.end = handed.end
    /\ ~handed.ok
    /\ 0 <= Cause.start /\ Cause.start <= Cause.end
    /\ Cause.end <= Len(HandedText)
    /\ CharBoundary(HandedText, Cause.start)
    /\ CharBoundary(HandedText, Cause.end)

\* C7 as stated: a Pep508 error names the file and brackets exactly the slice
\* that was given to the specifier parser, on character boundaries, with
\* `end` at a newline, at the end of the file, or at the whitespace before `--`.
C7_Pep508RangeAsStated ==
    err # <<>> /\ Cause.kind = "Pep508" =>
        /\ Pep508Brackets
        /\ \/ Cause.end = Len(HandedText)
           \/ HandedText[Cause.end + 1] = Newline
           \/ /\ SkipWrappable(HandedText, Cause.end) > Cause.end
              /\ At(HandedText, SkipWrappable(HandedText, Cause.end), <<"-", "-">>)

\* C7 amended: ... with `end` at a newline, at the end of the file, or at the
\* first byte of the whitespace (backslash-newline pairs included) that runs
\* up to `--` or up to the end of the file.
C7_Pep508Range ==
    err # <<>> /\ Cause.kind = "Pep508" =>
        /\ Pep508Brackets
        /\ \/ Cause.end = Len(HandedText)
           \/ HandedText[Cause.end + 1] = Newline
           \/ /\ SkipWrappable(HandedText, Cause.end) > Cause.end
              /\ \/ At(HandedText, SkipWrappable(HandedText, Cause.end), <<"-", "-">>)
                 \/ SkipWrappable(HandedText, Cause.end) = Len(HandedText)

\* a rejected body with a two-byte character in it, cut off at blanks that
\* run to the end of the file
C7_Witness ==
    /\ status = "error" /\ stack = <<>>
    /\ Cause.kind = "Pep508"
    /\ \E k \in Cause.start + 1 .. Cause.end : files[Cause.file][k] = "C3"
    /\ Cause.end < Len(files[Cause.file])
    /\ files[Cause.file][Cause.end + 1] = " "

----------------------------------------------------------------------------
(* Specification TreeSpec: a tree of requirement files rendered from        *)
(* statements.                                                              *)
(*                                                                          *)
(*     t          the top file: up to MaxStmts statements                   *)
(*     x, y       files beside the top file                                 *)
(*     d/x        included by the top file                                  *)
(*     d/y        included by d/x as `y`: a requirement with up to          *)
(*                MaxHashes hashes                                          *)
(* No file named m exists.                                                  *)

Stmt(kind, text, editable, hashes, form, path) ==
    [kind |-> kind, text |-> text, editable |-> editable, hashes |-> hashes,
     form |-> form, path |-> path]

\* a requirement statement and an include statement
Req(text, editable, hashes) == Stmt("req", text, editable, hashes, <<>>, <<>>)
Inc(kind, form, path) == Stmt(kind, <<>>, FALSE, <<>>, form, path)

RECURSIVE RenderPath(_)
RenderPath(path) ==
    IF Len(path) = 1 THEN path[1]
    ELSE path[1] \o <<"/">> \o RenderPath(Tail(path))

RenderHash(h) == h.sep \o HashKey \o h.form \o h.value

RECURSIVE RenderHashes(_)
RenderHashes(hs) ==
    IF hs = <<>> THEN <<>> ELSE RenderHash(Head(hs)) \o RenderHashes(Tail(hs))

RenderStmt(s) ==
    IF s.kind = "req"
    THEN (IF s.editable THEN <<"-", "e", " ">> ELSE <<>>)
         \o s.text \o RenderHashes(s.hashes) \o <<Newline>>
    ELSE <<"-", s.kind>> \o s.form \o RenderPath(s.path) \o <<Newline>>

RECURSIVE Render(_)
Render(stmts) ==
    IF stmts = <<>> THEN <<>> ELSE RenderStmt(Head(stmts)) \o Render(Tail(stmts))

PathDX == << <<"d">>, <<"x">> >>
PathDY == << <<"d">>, <<"y">> >>
PathX == << <<"x">> >>
PathY == << <<"y">> >>
PathM == << <<"m">> >>

\* the i-th hash of a requirement has i bytes
HashValue(i) == [k \in 1..i |-> "h"]

HashForms == { <<"=">>, <<" ">> }
HashSeps == { <<" ">>, <<" ", Backslash, Newline, " ">> }

HashLists ==
    UNION { { hs \in [1..n -> [form : HashForms, sep : HashSeps,
                               value : { HashValue(i) : i \in 1..n }]] :
                  \A i \in 1..n : hs[i].value = HashValue(i) } :
            n \in 0..MaxHashes }

PlainA == Req(<<"a">>, FALSE, <<>>)
PlainB == Req(<<"b">>, FALSE, <<>>)
EditableB == Req(<<"b">>, TRUE, <<>>)

TopStmts ==
    { PlainA, EditableB,
      Inc("r", <<" ">>, PathDX), Inc("c", <<" ">>, PathDX),
      Inc("r", <<"=">>, PathY), Inc("c", <<"=">>, PathY),
      Inc("r", <<" ">>, PathM) }

TopChoices == UNION { [1..n -> TopStmts] : n \in 0..MaxStmts }

MidChoices ==
    { << Inc("r", <<" ">>, PathY) >>,
      << EditableB, Inc("r", <<"=">>, PathY), PlainA >>,
      << Inc("c", <<" ">>, PathY), PlainA >>,
      << PlainA, Inc("c", <<"=">>, PathM) >>,
      << Inc("r", <<>>, PathY) >> }

LeafChoices ==
    { << Req(<<"a">>, FALSE, hs) >> \o tail :
          hs \in HashLists, tail \in { <<>>, <<PlainB>> } }
    \cup { << Inc("c", <<" ">>, PathM) >>,
           << Req(<<"a", "C3", "B6">>, FALSE, <<>>) >> }

Includes(stmts, path) ==
    \E k \in 1..Len(stmts) : stmts[k].kind # "req" /\ stmts[k].path = path

TreeFiles(top, mid, leaf) ==
    (TopFile :> top) @@ (PathDX :> mid) @@ (PathDY :> leaf)
    @@ (PathX :> << Req(<<"x">>, FALSE, <<>>) >>)
    @@ (PathY :> << Req(<<"y">>, TRUE, <<>>) >>)

TreeInit ==
    /\ \E top \in TopChoices :
       \E mid \in IF Includes(top, PathDX) THEN MidChoices
                  ELSE { << Inc("r", <<" ">>, PathY) >> } :
       \E leaf \in IF Includes(top, PathDX) /\ Includes(mid, PathY)
                   THEN LeafChoices ELSE { <<PlainB>> } :
           tree = TreeFiles(top, mid, leaf)
    /\ ParserStart([p \in DOMAIN tree |-> Render(tree[p])], TopFile)
    /\ LockIdle

TreeSpec == TreeInit /\ [][Next]_vars

----------------------------------------------------------------------------
(* Properties of the flattening of a tree of files, checked under TreeSpec *)

\* the RequirementEntry a requirement statement stands for
StmtEntry(s) ==
    RequirementEntry(s.text, [i \in 1..Len(s.hashes) |-> s.hashes[i].value],
                     s.editable)

\* the file an include statement of `file` names
Target(file, s) == Parent(file) \o s.path

\* the requirement statements reached from statement k of `file` on, depth
\* first and in statement order; `under` tells whether a `-c` include lies on
\* the way from the top file
RECURSIVE Reached(_, _, _)
Reached(file, k, under) ==
    IF file \notin DOMAIN tree THEN <<>>
    ELSE IF k > Len(tree[file]) THEN <<>>
    ELSE (IF tree[file][k].kind = "req"
          THEN << [entry |-> StmtEntry(tree[file][k]), under |-> under] >>
          ELSE Reached(Target(file, tree[file][k]), 1,
                       under \/ tree[file][k].kind = "c"))
         \o Reached(file, k + 1, under)

IsUnder(e) == e.under
IsFree(e) == ~e.under

UnderConstraint == SelectSeq(Reached(TopFile, 1, FALSE), IsUnder)
NotUnderConstraint == SelectSeq(Reached(TopFile, 1, FALSE), IsFree)

Entries(lin) == [k \in 1..Len(lin) |-> lin[k].entry]
Bare(lin) == [k \in 1..Len(lin) |-> lin[k].entry.requirement]

Range(seq) == { seq[k] : k \in 1..Len(seq) }
Count(seq, v) == Cardinality({ k \in 1..Len(seq) : seq[k] = v })
SameBag(s1, s2) ==
    /\ Len(s1) = Len(s2)
    /\ \A v \in Range(s1) \cup Range(s2) : Count(s1, v) = Count(s2, v)

\* C1: every requirement statement reached through at least one `-c` is in
\* the top-level constraints as a bare requirement (no hashes, no editable
\* flag), the constraints hold nothing else, and the top-level requirements
\* are exactly the statements reached without any `-c`.
C1_ConstraintsNeverRequirements ==
    status = "ok" =>
        /\ SameBag(result.constraints, Bare(UnderConstraint))
        /\ SameBag(result.requirements, Entries(NotUnderConstraint))

\* a `-c` include with a `-r` include below it, that reach an editable
\* requirement and a requirement with hashes
C1_Witness ==
    /\ status = "ok"
    /\ \E k \in 1..Len(UnderConstraint) : UnderConstraint[k].entry.editable
    /\ \E k \in 1..Len(UnderConstraint) : UnderConstraint[k].entry.hashes # <<>>
    /\ Includes(tree[TopFile], PathDX)
    /\ Includes(tree[PathDX], PathY)
    /\ NotUnderConstraint # <<>>

\* the files named by `-c` hold no include
ConstraintFilesAreFlat ==
    \A f \in DOMAIN tree : \A k \in 1..Len(tree[f]) :
        tree[f][k].kind = "c" /\ Target(f, tree[f][k]) \in DOMAIN tree =>
            \A j \in 1..Len(tree[Target(f, tree[f][k])]) :
                tree[Target(f, tree[f][k])][j].kind = "req"

\* C2: with `-r` includes nested to any depth, parse of the top file returns
\* the requirements (hashes and editable flags kept) of all files in
\* depth-first statement order and, where the `-c` files hold no include of
\* their own, the constraints in that order too, each include path resolved
\* against the directory of the file that holds the directive.
C2_FlattenDepthFirst ==
    status = "ok" =>
        /\ result.requirements = Entries(NotUnderConstraint)
        /\ ConstraintFilesAreFlat => result.constraints = Bare(UnderConstraint)

\* a chain t -> d/x -> d/y of `-r` includes with requirements before and
\* after the include, hashes and an editable entry, and a constraint
C2_Witness ==
    /\ status = "ok" /\ ConstraintFilesAreFlat
    /\ \E k \in 1..Len(tree[TopFile]) :
           tree[TopFile][k].kind = "r" /\ tree[TopFile][k].path = PathDX
    /\ \E k \in 1..Len(tree[PathDX]) :
           tree[PathDX][k].kind = "r" /\ tree[PathDX][k].path = PathY
    /\ Len(tree[PathDX]) = 3
    /\ \E k \in 1..Len(result.requirements) :
           Len(result.requirements[k].hashes) = 2
    /\ \E k \in 1..Len(result.requirements) : result.requirements[k].editable
    /\ result.constraints # <<>>

\* the offset of statement k in the rendered file
StmtOffset(stmts, k) == Len(Render(SubSeq(stmts, 1, k - 1)))

\* `file` holds an include of `target` whose keyword ends at `location`
IncludeAt(file, location, target) ==
    /\ file \in DOMAIN tree
    /\ \E k \in 1..Len(tree[file]) :
           /\ tree[file][k].kind \in {"r", "c"}
           /\ StmtOffset(tree[file], k) + 2 = location
           /\ Target(file, tree[file][k]) = target

\* C6: when the parse of an included file fails, the outermost parse fails
\* with a chain of Subfile errors, one per include on the way from the top
\* file to the failure and in that order, each with the including file and
\* the offset just after its `-r`/`-c` keyword, ending in the original
\* cause; no RequirementsTxt is returned.
C6_SubfileChain ==
    status = "error" /\ stack = <<>> =>
        /\ result = NoResult
        /\ err # <<>>
        /\ err[1].file = TopFile
        /\ Cause.kind \in {"IO", "Parser", "Pep508"}
        /\ Cause.kind = "IO" <=> Cause.file \notin DOMAIN files
        /\ \A i \in 1..(Len(err) - 1) :
               /\ err[i].kind = "Subfile"
               /\ IncludeAt(err[i].file, err[i].location, err[i + 1].file)

\* the include chain t -> d/x -> d/y -> m ends at the missing file
C6_Witness ==
    /\ status = "error" /\ stack = <<>>
    /\ Len(err) = 4
    /\ Cause.kind = "IO"
    /\ err[3].file = PathDY

\* the file holds requirement statements only
OnlyRequirements(file) ==
    \A k \in 1..Len(tree[file]) : tree[file][k].kind = "req"

\* C9: a requirement followed by k >= 0 hashes, each as `--hash=<value>` or
\* `--hash <value>` and separated by whitespace with or without a
\* backslash-newline, yields exactly one entry whose hashes are the k values
\* in the order of the text.
C9_HashesInOrder ==
    \A i \in 1..Len(stack) :
        OnlyRequirements(stack[i].file) =>
            /\ Len(stack[i].requirements) <= Len(tree[stack[i].file])
            /\ \A k \in 1..Len(stack[i].requirements) :
                   stack[i].requirements[k] = StmtEntry(tree[stack[i].file][k])
            /\ Done(files[stack[i].file], stack[i].cursor) =>
                   Len(stack[i].requirements) = Len(tree[stack[i].file])

\* a parsed requirement with two hashes, one in each form, the second after a
\* backslash-newline, followed by another requirement
C9_Witness ==
    \E i \in 1..Len(stack) :
        /\ OnlyRequirements(stack[i].file)
        /\ Done(files[stack[i].file], stack[i].cursor)
        /\ Len(tree[stack[i].file]) = 2
        /\ Len(tree[stack[i].file][1].hashes) = 2
        /\ tree[stack[i].file][1].hashes[1].form = <<" ">>
        /\ tree[stack[i].file][1].hashes[2].form = <<"=">>
        /\ tree[stack[i].file][1].hashes[2].sep # <<" ">>
        /\ Len(stack[i].requirements[1].hashes) = 2

----------------------------------------------------------------------------
(* Properties of install_wheel_in_venv, checked under LockSpec *)

\* p is between a successful acquire_lock and the release of its LockedDir
HoldsLockedDir(p) == pc[p] \in {"install", "return"}

\* C4: of the calls that target one environment at most one at a time is
\* between a successful acquire_lock and the release of its LockedDir, the
\* installer runs only in that interval, and the lock of an environment is
\* held by exactly the call that is in it.
C4_InstallsSerialize ==
    /\ \A p \in Procs : \A q \in Procs :
           p # q /\ HoldsLockedDir(p) /\ HoldsLockedDir(q) => venv[p] # venv[q]
    /\ \A p \in Procs : HoldsLockedDir(p) => lock[venv[p]] = {p}
    /\ \A p \in Procs : progress[p] > 0 => lock[venv[p]] = {p}
    /\ \A e \in Envs : \A p \in lock[e] : HoldsLockedDir(p) /\ venv[p] = e

\* one call is in the middle of the installer while another call on the same
\* environment waits for the lock
C4_Witness ==
    \E p \in Procs : \E q \in Procs :
        /\ p # q
        /\ pc[p] = "install" /\ progress[p] > 0
        /\ pc[q] = "acquire" /\ venv[q] = venv[p]

\* C5: the lock is taken before the installer is invoked; a call that has
\* returned holds no lock, whether the installer returned a tag or an error;
\* when canonicalize or acquire_lock fails the lock was never taken and the
\* installer did not run; with no call active every lock is free.
C5_LockReleasedOnEveryPath ==
    /\ \A p \in Procs : history[p].installed => history[p].locked
    /\ \A p \in Procs : pc[p] \in {"idle", "canonicalize", "acquire"} =>
           \A e \in Envs : p \notin lock[e]
    /\ \A p \in Procs : outcome[p] \in {"Err(IO)", "Err(lock)"} =>
           ~history[p].locked /\ ~history[p].installed
    /\ \A p \in Procs : outcome[p] \in {"Ok(tag)", "Err(install)"} =>
           history[p].locked /\ history[p].installed
    /\ (\A p \in Procs : pc[p] = "idle") => \A e \in Envs : lock[e] = {}

\* after a call whose installer failed has returned, another call holds the
\* lock of the same environment
C5_Witness ==
    \E p \in Procs : \E q \in Procs :
        /\ p # q
        /\ pc[p] = "idle" /\ outcome[p] = "Err(install)"
        /\ venv[q] = venv[p] /\ lock[venv[p]] = {q} /\ pc[q] = "install"

====
